---- MODULE Spec2Model ----
(***************************************************************************)
(* Library Inventory API (src/main.py): two SQLite tables, authors and     *)
(* books, behind nine FastAPI routes.  The store is two functions from     *)
(* primary key to row.  Each handler is an operator that maps the current  *)
(* store and the request to its outcome (the store it commits and the      *)
(* HTTP status and body it answers); each route is the action that takes   *)
(* that outcome.  `last` holds the latest response.                        *)
(***************************************************************************)
EXTENDS Integers, FiniteSets, TLC

\* ---- bounds of the model: the largest key a table hands out, and the ----
\* ---- number of requests the thread pool runs at once                 ----
MaxAuthorId == 2
MaxBookId == 2
NumWorkers == 2

AuthorIds == 1..MaxAuthorId
BookIds == 1..MaxBookId
Workers == 1..NumWorkers

\* ---- sample values of the request fields ----
Names == {"Austen", "Borges"}
Titles == {"Emma", "Ficciones"}
Isbns == {"isbn-1", "isbn-2"}
Copies == {0}

VARIABLES authors, books, last, reqs

vars == <<authors, books, last, reqs>>

\* ---- request and response shapes ----
NoBody == [none |-> TRUE]

\* JSON bodies accepted for AuthorCreate
AuthorBodies == [name : Names]

\* JSON bodies accepted for BookCreate: copies_available may be left out
BookBodies ==
  [title : Titles, author_id : AuthorIds, isbn : Isbns]
    \cup [title : Titles, author_id : AuthorIds, isbn : Isbns, copies_available : Copies]

AuthorCreate(body) == [name |-> body.name]

\* the column default (0) taken for the schema default
BookCreate_default0(body) ==
  [title |-> body.title,
   author_id |-> body.author_id,
   isbn |-> body.isbn,
   copies_available |->
     IF "copies_available" \in DOMAIN body THEN body.copies_available ELSE 0]

BookCreate(body) ==
  [title |-> body.title,
   author_id |-> body.author_id,
   isbn |-> body.isbn,
   copies_available |->
     IF "copies_available" \in DOMAIN body THEN body.copies_available ELSE 1]

Author(id, row) == [id |-> id, name |-> row.name]

Book(id, row) ==
  [id |-> id, title |-> row.title, author_id |-> row.author_id,
   isbn |-> row.isbn, copies_available |-> row.copies_available]

Response(op, id, status, resp) ==
  [op |-> op, id |-> id, status |-> status, resp |-> resp]

\* what a handler leaves behind: the committed tables and the response
Outcome(a, b, response) == [authors |-> a, books |-> b, last |-> response]

\* ---- the store ----
Max(S) == CHOOSE x \in S : \A y \in S : y <= x

\* keys handed out by counting the rows
NextId_count(tbl) == Cardinality(DOMAIN tbl) + 1

\* INTEGER PRIMARY KEY without AUTOINCREMENT: one more than the largest key
NextId(tbl) == IF DOMAIN tbl = {} THEN 1 ELSE Max(DOMAIN tbl) + 1

\* unique index on authors.name
NameInUse(name) == \E a \in DOMAIN authors : authors[a].name = name

\* books.isbn without its unique index
IsbnInUse_none(isbn, self) == FALSE

\* unique index on books.isbn; self is the row being written (0 for an insert)
IsbnInUse(isbn, self) == \E b \in DOMAIN books \ {self} : books[b].isbn = isbn

\* the relationship without its delete cascade
author_books_nocascade(id) == {}

\* a cascade that is not restricted to the author's own rows
author_books_all(id) == DOMAIN books

\* AuthorModel.books: the rows the relationship loads for an author
author_books(id) == {b \in DOMAIN books : books[b].author_id = id}

Insert(tbl, id, row) == [k \in DOMAIN tbl \cup {id} |-> IF k = id THEN row ELSE tbl[k]]

Delete(tbl, ids) == [k \in DOMAIN tbl \ ids |-> tbl[k]]

Idle == [pc |-> "idle"]

Init ==
  /\ authors = <<>>
  /\ books = <<>>
  /\ last = Response("none", 0, 0, NoBody)
  /\ reqs = [w \in Workers |-> Idle]

\* ---- author handlers ----
create_author(body) ==
  IF NameInUse(body.name)
    THEN Outcome(authors, books, Response("create_author", 0, 500, NoBody))
    ELSE LET id == NextId(authors)
             row == AuthorCreate(body)
         IN Outcome(Insert(authors, id, row), books,
                    Response("create_author", id, 201, Author(id, row)))

get_authors ==
  Outcome(authors, books,
          Response("get_authors", 0, 200,
                   [items |-> {Author(a, authors[a]) : a \in DOMAIN authors}]))

get_author(author_id) ==
  IF author_id \notin DOMAIN authors
    THEN Outcome(authors, books, Response("get_author", author_id, 404, NoBody))
    ELSE Outcome(authors, books,
                 Response("get_author", author_id, 200,
                          Author(author_id, authors[author_id])))

\* db.commit() of a delete: the loaded books and the author go by primary key
delete_rows(author_id, loaded) ==
  Outcome(Delete(authors, {author_id}),
          Delete(books, loaded),
          Response("delete_author", author_id, 204, NoBody))

delete_author(author_id) ==
  IF author_id \notin DOMAIN authors
    THEN Outcome(authors, books, Response("delete_author", author_id, 404, NoBody))
    ELSE delete_rows(author_id, author_books(author_id))

\* ---- book handlers ----
\* db.add, db.commit, db.refresh of a new book
insert_book(body) ==
  IF IsbnInUse(body.isbn, 0)
    THEN Outcome(authors, books, Response("create_book", 0, 500, NoBody))
    ELSE LET id == NextId(books)
             row == BookCreate(body)
         IN Outcome(authors, Insert(books, id, row),
                    Response("create_book", id, 201, Book(id, row)))

\* create_book without the author lookup
create_book_unchecked(body) == insert_book(body)

create_book(body) ==
  IF body.author_id \notin DOMAIN authors
    THEN Outcome(authors, books, Response("create_book", 0, 400, NoBody))
    ELSE insert_book(body)

get_books ==
  Outcome(authors, books,
          Response("get_books", 0, 200,
                   [items |-> {Book(b, books[b]) : b \in DOMAIN books}]))

get_book(book_id) ==
  IF book_id \notin DOMAIN books
    THEN Outcome(authors, books, Response("get_book", book_id, 404, NoBody))
    ELSE Outcome(authors, books,
                 Response("get_book", book_id, 200, Book(book_id, books[book_id])))

\* update_book that leaves the title as it was
update_book_keep_title(book_id, body) ==
  IF book_id \notin DOMAIN books
    THEN Outcome(authors, books, Response("update_book", book_id, 404, NoBody))
    ELSE IF IsbnInUse(body.isbn, book_id)
      THEN Outcome(authors, books, Response("update_book", book_id, 500, NoBody))
      ELSE LET row == [BookCreate(body) EXCEPT !.title = books[book_id].title]
           IN Outcome(authors, Insert(books, book_id, row),
                      Response("update_book", book_id, 200, Book(book_id, row)))

update_book(book_id, body) ==
  IF book_id \notin DOMAIN books
    THEN Outcome(authors, books, Response("update_book", book_id, 404, NoBody))
    ELSE IF IsbnInUse(body.isbn, book_id)
      THEN Outcome(authors, books, Response("update_book", book_id, 500, NoBody))
      ELSE LET row == BookCreate(body)
           IN Outcome(authors, Insert(books, book_id, row),
                      Response("update_book", book_id, 200, Book(book_id, row)))

\* delete_book that answers 204 whether or not the row exists
delete_book_idempotent(book_id) ==
  Outcome(authors, Delete(books, {book_id}),
          Response("delete_book", book_id, 204, NoBody))

delete_book(book_id) ==
  IF book_id \notin DOMAIN books
    THEN Outcome(authors, books, Response("delete_book", book_id, 404, NoBody))
    ELSE Outcome(authors, Delete(books, {book_id}),
                 Response("delete_book", book_id, 204, NoBody))

\* ---- the routes, one request at a time ----
\* the outcome is committed and answered; keys stay within the bounds of the model
Commit(r) ==
  /\ DOMAIN r.authors \subseteq AuthorIds
  /\ DOMAIN r.books \subseteq BookIds
  /\ authors' = r.authors
  /\ books' = r.books
  /\ last' = r.last

Serve(r) == Commit(r) /\ UNCHANGED reqs

PostAuthors(body) == Serve(create_author(body))

GetAuthors == Serve(get_authors)

GetAuthor(author_id) == Serve(get_author(author_id))

DeleteAuthor(author_id) == Serve(delete_author(author_id))

PostBooks(body) == Serve(create_book(body))

GetBooks == Serve(get_books)

GetBook(book_id) == Serve(get_book(book_id))

PutBook(book_id, body) == Serve(update_book(book_id, body))

DeleteBook(book_id) == Serve(delete_book(book_id))

Next ==
  \/ \E body \in AuthorBodies : PostAuthors(body)
  \/ GetAuthors
  \/ \E author_id \in AuthorIds : GetAuthor(author_id)
  \/ \E author_id \in AuthorIds : DeleteAuthor(author_id)
  \/ \E body \in BookBodies : PostBooks(body)
  \/ GetBooks
  \/ \E book_id \in BookIds : GetBook(book_id)
  \/ \E book_id \in BookIds, body \in BookBodies : PutBook(book_id, body)
  \/ \E book_id \in BookIds : DeleteBook(book_id)

Spec == Init /\ [][Next]_vars

\* ---- properties of the handlers in the states Spec reaches ----

\* the values a BookCreate body stands for, default filled in
Submitted(body) ==
  [title |-> body.title,
   author_id |-> body.author_id,
   isbn |-> body.isbn,
   copies_available |->
     IF "copies_available" \in DOMAIN body THEN body.copies_available ELSE 1]

OthersKept(tbl, tblNext, ids) ==
  \A k \in DOMAIN tbl \ ids : k \in DOMAIN tblNext /\ tblNext[k] = tbl[k]

StoreKept(r) == r.authors = authors /\ r.books = books

\* C1: in every reachable state every stored Book's author_id is the id of
\* a stored Author.
C1_BookAuthorExists ==
  \A b \in DOMAIN books : books[b].author_id \in DOMAIN authors

\* C2: DELETE /authors/{id} on a stored Author answers 204 and leaves neither
\* that Author nor any Book whose author_id is id in the store.
C2_DeleteAuthorCascades ==
  \A id \in DOMAIN authors :
    LET r == delete_author(id)
    IN /\ r.last.status = 204
       /\ id \notin DOMAIN r.authors
       /\ \A b \in DOMAIN r.books : r.books[b].author_id # id

C2_Witness ==
  /\ last.op = "delete_author" /\ last.status = 204
  /\ last.id \notin DOMAIN authors
  /\ DOMAIN authors # {}
  /\ \E b \in DOMAIN books : books[b].author_id # last.id

\* C3: POST /books/ naming a stored Author with an unused isbn answers 201
\* and adds exactly one Book with the submitted title, author_id and isbn;
\* naming no stored Author it answers 400 and the store is unchanged.
C3_CreateBook ==
  \A body \in BookBodies :
    LET r == create_book(body)
    IN IF body.author_id \in DOMAIN authors
         THEN (\A b \in DOMAIN books : books[b].isbn # body.isbn)
                => /\ r.last.status = 201
                   /\ r.authors = authors
                   /\ \E id \in DOMAIN r.books \ DOMAIN books :
                        /\ DOMAIN r.books = DOMAIN books \cup {id}
                        /\ OthersKept(books, r.books, {})
                        /\ r.books[id].title = body.title
                        /\ r.books[id].author_id = body.author_id
                        /\ r.books[id].isbn = body.isbn
         ELSE r.last.status = 400 /\ StoreKept(r)

C3_Witness ==
  /\ last.op = "create_book" /\ last.status = 201
  /\ last.id \in DOMAIN books
  /\ books[last.id].author_id \in DOMAIN authors
  /\ Cardinality(DOMAIN books) = 2

\* C4: GET and DELETE of an Author id that is not stored, and GET, PUT and
\* DELETE of a Book id that is not stored, answer 404 and change nothing.
C4_NotFound ==
  /\ \A id \in AuthorIds \ DOMAIN authors :
       \A r \in {get_author(id), delete_author(id)} :
         r.last.status = 404 /\ StoreKept(r)
  /\ \A id \in BookIds \ DOMAIN books :
       \A r \in {get_book(id), delete_book(id)}
                  \cup {update_book(id, body) : body \in BookBodies} :
         r.last.status = 404 /\ StoreKept(r)

C4_Witness ==
  /\ last.op = "delete_book" /\ last.status = 404
  /\ last.id \notin DOMAIN books
  /\ DOMAIN books # {}

\* C5: no two stored Authors share a name and no two stored Books share an
\* isbn; a POST /authors/ with a used name, a POST /books/ with a used isbn
\* and a PUT giving a Book the isbn of another Book change no record.
C5_Unique ==
  /\ \A a1, a2 \in DOMAIN authors : authors[a1].name = authors[a2].name => a1 = a2
  /\ \A b1, b2 \in DOMAIN books : books[b1].isbn = books[b2].isbn => b1 = b2
  /\ \A body \in AuthorBodies :
       (\E a \in DOMAIN authors : authors[a].name = body.name)
         => StoreKept(create_author(body))
  /\ \A body \in BookBodies :
       (\E b \in DOMAIN books : books[b].isbn = body.isbn)
         => StoreKept(create_book(body))
  /\ \A id \in BookIds, body \in BookBodies :
       (\E b \in DOMAIN books \ {id} : books[b].isbn = body.isbn)
         => StoreKept(update_book(id, body))

C5_Witness ==
  /\ last.op = "update_book" /\ last.status = 500
  /\ Cardinality(DOMAIN books) = 2

\* C6 as stated: a PUT /books/{id} on a stored Book answers 200 and leaves
\* the Book with the fields of the body (copies_available defaulted), id kept.
C6_UpdateReplacesAlways ==
  \A id \in DOMAIN books, body \in BookBodies :
    LET r == update_book(id, body)
    IN /\ r.last.status = 200
       /\ DOMAIN r.books = DOMAIN books
       /\ r.books[id] = Submitted(body)

\* C6 amended: a PUT /books/{id} on a stored Book whose body's isbn is not
\* the isbn of another stored Book answers 200 and leaves the Book with the
\* fields of the body (copies_available defaulted), id kept.
C6_UpdateReplaces ==
  \A id \in DOMAIN books, body \in BookBodies :
    (\A b \in DOMAIN books \ {id} : books[b].isbn # body.isbn)
      => LET r == update_book(id, body)
         IN /\ r.last.status = 200
            /\ r.last.resp.id = id
            /\ DOMAIN r.books = DOMAIN books
            /\ r.books[id] = Submitted(body)

C6_Witness ==
  /\ last.op = "update_book" /\ last.status = 200
  /\ last.id \in DOMAIN books
  /\ Book(last.id, books[last.id]) = last.resp
  /\ Cardinality(DOMAIN books) = 2

\* C7: POST /authors/ with an unused name answers 201 with an Author of that
\* name; the name stored under an id stays the same for as long as the
\* Author is not deleted, and GET /authors/{id} answers 200 with it.
C7_AuthorRoundTrip ==
  /\ [](\A body \in AuthorBodies :
          (\A a \in DOMAIN authors : authors[a].name # body.name)
            => LET r == create_author(body)
               IN /\ r.last.status = 201
                  /\ r.last.resp.name = body.name
                  /\ r.last.resp.id \in DOMAIN r.authors \ DOMAIN authors
                  /\ r.authors[r.last.resp.id].name = body.name)
  /\ [](\A id \in DOMAIN authors :
          LET r == get_author(id)
          IN /\ r.last.status = 200
             /\ r.last.resp = [id |-> id, name |-> authors[id].name])
  /\ [][\A a \in DOMAIN authors :
          a \in DOMAIN authors' => authors'[a].name = authors[a].name]_vars

C7_Witness ==
  /\ last.op = "get_author" /\ last.status = 200
  /\ last.id \in DOMAIN authors
  /\ last.resp.name = authors[last.id].name
  /\ DOMAIN books # {}

\* C8: a Book created with copies_available left out is stored and returned
\* with copies_available 1; with the field given, the given value is stored.
C8_CopiesDefault ==
  \A body \in BookBodies :
    LET r == create_book(body)
        id == r.last.resp.id
        n == IF "copies_available" \in DOMAIN body
               THEN body.copies_available ELSE 1
    IN r.last.status = 201
         => /\ id \in DOMAIN r.books
            /\ r.books[id].copies_available = n
            /\ r.last.resp.copies_available = n

C8_Witness ==
  /\ last.op = "create_book" /\ last.status = 201
  /\ last.resp.copies_available = 1
  /\ last.id \in DOMAIN books
  /\ books[last.id].copies_available = 1

\* C10: a successful DELETE /books/{id} removes that Book and leaves every
\* Author and every other Book as it was; a successful DELETE /authors/{id}
\* leaves every other Author and every Book of another author_id as it was.
C10_DeleteFrame ==
  /\ \A id \in DOMAIN books :
       LET r == delete_book(id)
       IN /\ r.authors = authors
          /\ DOMAIN r.books = DOMAIN books \ {id}
          /\ OthersKept(books, r.books, {id})
  /\ \A id \in DOMAIN authors :
       LET r == delete_author(id)
       IN /\ DOMAIN r.authors = DOMAIN authors \ {id}
          /\ OthersKept(authors, r.authors, {id})
          /\ \A b \in DOMAIN books :
               books[b].author_id # id
                 => b \in DOMAIN r.books /\ r.books[b] = books[b]

C10_Witness ==
  /\ last.op = "delete_book" /\ last.status = 204
  /\ last.id \notin DOMAIN books
  /\ DOMAIN books # {}
  /\ DOMAIN authors # {}

\* ---- the handlers as the thread pool runs them: one step per database ----
\* ---- round trip, so that two requests interleave                      ----

\* create_book up to the author lookup
cb_check(w, body) ==
  /\ reqs[w].pc = "idle"
  /\ UNCHANGED <<authors, books>>
  /\ IF body.author_id \notin DOMAIN authors
       THEN /\ UNCHANGED reqs
            /\ last' = Response("create_book", 0, 400, NoBody)
       ELSE /\ reqs' = [reqs EXCEPT ![w] = [pc |-> "cb_commit", body |-> body]]
            /\ UNCHANGED last

\* create_book from the insert to the response
cb_commit(w) ==
  /\ reqs[w].pc = "cb_commit"
  /\ Commit(insert_book(reqs[w].body))
  /\ reqs' = [reqs EXCEPT ![w] = Idle]

\* delete_author up to the author lookup
da_get(w, author_id) ==
  /\ reqs[w].pc = "idle"
  /\ UNCHANGED <<authors, books>>
  /\ IF author_id \notin DOMAIN authors
       THEN /\ UNCHANGED reqs
            /\ last' = Response("delete_author", author_id, 404, NoBody)
       ELSE /\ reqs' = [reqs EXCEPT ![w] = [pc |-> "da_delete", author_id |-> author_id]]
            /\ UNCHANGED last

\* db.delete(author): the cascade loads the author's books
da_delete(w) ==
  /\ reqs[w].pc = "da_delete"
  /\ UNCHANGED <<authors, books, last>>
  /\ reqs' = [reqs EXCEPT ![w] = [pc |-> "da_commit",
                                  author_id |-> reqs[w].author_id,
                                  loaded |-> author_books(reqs[w].author_id)]]

\* db.commit() of the delete
da_commit(w) ==
  /\ reqs[w].pc = "da_commit"
  /\ Commit(delete_rows(reqs[w].author_id, reqs[w].loaded))
  /\ reqs' = [reqs EXCEPT ![w] = Idle]

NextConc ==
  \/ \E body \in AuthorBodies : PostAuthors(body)
  \/ \E w \in Workers, body \in BookBodies : cb_check(w, body)
  \/ \E w \in Workers : cb_commit(w)
  \/ \E w \in Workers, author_id \in AuthorIds : da_get(w, author_id)
  \/ \E w \in Workers : da_delete(w)
  \/ \E w \in Workers : da_commit(w)

SpecConc == Init /\ [][NextConc]_vars

\* C9: no Book is committed under an author_id whose Author is no longer stored.
C9_NoBookCommittedAfterAuthorDeleted ==
  [][\A b \in DOMAIN books' :
       (b \notin DOMAIN books \/ books'[b] # books[b])
          => books'[b].author_id \in DOMAIN authors']_vars

====
